---------------------------- MODULE Spec2Model ----------------------------
(***************************************************************************)
(* The books operator of chapter 12: the Book custom resource              *)
(* (api/v1/book_types.go) and BookReconciler (internal/controller/         *)
(* book_controller.go).  The cluster holds Books and Pods; every replica   *)
(* of the operator runs Reconcile for the keys its watches enqueue.  One   *)
(* step of a replica is one API call of Reconcile, so that other actors     *)
(* (users, the garbage collector, another replica) interleave between the   *)
(* calls as they do against a real API server.                              *)
(***************************************************************************)
EXTENDS Integers, Sequences, FiniteSets, TLC

VARIABLES
    scenario,   \* the cluster of this run: its operator replicas and namespaces
    books,      \* BookKeys -> Book object (NoBook: no such object)
    pods,       \* the set of Pod objects, unique by (ns, name)
    nextUid,    \* the UID the API server gives the next Book
    faults,     \* the calls the API server may still fail (Unlimited: any)
    queue,      \* replica -> the keys its work queue holds
    pc,         \* replica -> where its Reconcile call stands
    req,        \* replica -> req.NamespacedName of the running call
    book,       \* replica -> the Book fetched by the running call
    calls,      \* replica -> the API calls the running call has made
    ret         \* replica -> (ctrl.Result, error) of the call that returned

vars == <<scenario, books, pods, nextUid, faults, queue, pc, req, book, calls, ret>>

---------------------------------------------------------------------------
(* Bounds and inputs *)

\* Book objects created over a run (each takes a fresh UID).
MaxUid == 2

\* API calls the API server fails over a run in which it does not fail them
\* for ever.
MaxFaults == 1

Replicas == {"r1", "r2"}

Namespaces == {"default", "lib"}
BookNames == {"a", "a-pod"}
BookKeys == Namespaces \X BookNames
NoKey == <<"", "">>

\* The clusters a run starts from: the operator deployed with two replicas
\* (no leader election) over one namespace, or with one replica over two
\* namespaces, or with one replica over one namespace where Books take two
\* names, one of them the other's Pod name.
Scenarios ==
    { [replicas |-> {"r1", "r2"}, namespaces |-> {"default"},
       names |-> {"a"}],
      [replicas |-> {"r1"}, namespaces |-> {"default", "lib"},
       names |-> {"a"}],
      [replicas |-> {"r1"}, namespaces |-> {"default"},
       names |-> {"a", "a-pod"}] }

\* kubebuilder validation markers of BookSpec
MinLength == 1
MaxLength == 200
Minimum == 1900
Maximum == 2100

\* A title one character longer than MaxLength allows.
RECURSIVE Repeat(_, _)
Repeat(s, n) == IF n = 0 THEN "" ELSE s \o Repeat(s, n - 1)
LongTitle == Repeat("x", MaxLength + 1)

\* The BookSpecs users submit: two the API server admits, and one beyond
\* each limit of the schema.
InputSpecs ==
    { [book |-> "Go", year |-> 1900], [book |-> "K8s", year |-> 2100],
      [book |-> "", year |-> 2009], [book |-> LongTitle, year |-> 2009],
      [book |-> "Go", year |-> 1899], [book |-> "Go", year |-> 2101] }

---------------------------------------------------------------------------
(* api/v1/book_types.go *)

\* BookSpec without validation markers: every spec is admitted.
BookSpecUnvalidated(s) == TRUE

\* BookSpec with its validation markers, as the API server enforces them on
\* every create and update of a Book.
BookSpec(s) ==
    /\ Len(s.book) >= MinLength
    /\ Len(s.book) <= MaxLength
    /\ s.year >= Minimum
    /\ s.year <= Maximum

\* BookStatus is an empty struct.
BookStatus == [observed |-> {}]

\* A Book object: ObjectMeta (namespace and name are its key; uid), Spec and
\* Status.
Book(uid, s) == [uid |-> uid, spec |-> s, status |-> BookStatus,
                 finalizers |-> {}]
NoBook == [uid |-> 0, spec |-> [book |-> "", year |-> 0],
           status |-> BookStatus, finalizers |-> {}]

BookExists(b) == books[b] # NoBook

---------------------------------------------------------------------------
(* The API objects and values Reconcile handles *)

Nil == "nil"
NotFound == "NotFound"
AlreadyExists == "AlreadyExists"
InternalError == "InternalError"

\* ctrl.Result{}
EmptyResult == [Requeue |-> FALSE, RequeueAfter |-> 0]
NoRet == [result |-> EmptyResult, err |-> "none"]

\* client.IgnoreNotFound
IgnoreNotFound(err) == IF err = NotFound THEN Nil ELSE err

\* NewControllerRef left out: the Pod is created without owner references.
NoControllerRef(bk) ==
    [kind |-> "", name |-> "", uid |-> 0, controller |-> FALSE]

\* metav1.NewControllerRef(book, GroupVersion.WithKind("Book"))
NewControllerRef(bk) ==
    [kind |-> "Book", name |-> bk.name, uid |-> bk.uid, controller |-> TRUE]
NoOwner == [kind |-> "", name |-> "", uid |-> 0, controller |-> FALSE]

\* %d of fmt.Sprintf
Digit(d) == CASE d = 0 -> "0" [] d = 1 -> "1" [] d = 2 -> "2" [] d = 3 -> "3"
              [] d = 4 -> "4" [] d = 5 -> "5" [] d = 6 -> "6" [] d = 7 -> "7"
              [] d = 8 -> "8" [] d = 9 -> "9"
RECURSIVE Decimal(_)
Decimal(n) == IF n < 0 THEN "-" \o Decimal(0 - n)
              ELSE IF n < 10 THEN Digit(n)
              ELSE Decimal(n \div 10) \o Digit(n % 10)

\* Sprintf with the year's verb and argument left out of the script.
SprintfTitleOnly(title, year) ==
    "while true; do echo Book: " \o title \o "; sleep 1; done"

\* fmt.Sprintf("while true; do echo Book: %s, Year: %d; sleep 1; done", ...)
Sprintf(title, year) ==
    "while true; do echo Book: " \o title \o ", Year: " \o Decimal(year)
        \o "; sleep 1; done"

\* The Book as r.Get fills it in: its key, UID and spec.
Fetched(b) == [namespace |-> b[1], name |-> b[2], uid |-> books[b].uid,
               spec |-> books[b].spec]
NoFetched == [namespace |-> "", name |-> "", uid |-> 0,
              spec |-> [book |-> "", year |-> 0]]

\* DesiredPod with the title made part of the Pod's name.
DesiredPodPerTitle(bk) ==
    [ns |-> bk.namespace,
     name |-> bk.name \o "-" \o bk.spec.book \o "-pod",
     owner |-> NewControllerRef(bk),
     image |-> "busybox:1.36",
     command |-> <<"sh", "-c", Sprintf(bk.spec.book, bk.spec.year)>>]

\* DesiredPod with one name for every Book: Name: "book-pod".
DesiredPodSharedName(bk) ==
    [ns |-> bk.namespace,
     name |-> "book-pod",
     owner |-> NewControllerRef(bk),
     image |-> "busybox:1.36",
     command |-> <<"sh", "-c", Sprintf(bk.spec.book, bk.spec.year)>>]

\* DesiredPod with the namespace fixed: Namespace: "default".
DesiredPodInDefault(bk) ==
    [ns |-> "default",
     name |-> bk.name \o "-pod",
     owner |-> NewControllerRef(bk),
     image |-> "busybox:1.36",
     command |-> <<"sh", "-c", Sprintf(bk.spec.book, bk.spec.year)>>]

\* pod := &corev1.Pod{...}: the one Pod Reconcile wants for a Book
DesiredPod(bk) ==
    [ns |-> bk.namespace,
     name |-> bk.name \o "-pod",
     owner |-> NewControllerRef(bk),
     image |-> "busybox:1.36",
     command |-> <<"sh", "-c", Sprintf(bk.spec.book, bk.spec.year)>>]

\* client.ObjectKey{Name: pod.Name, Namespace: pod.Namespace}
ObjectKey(pod) == <<pod.ns, pod.name>>

PodsAt(key) == {p \in pods : <<p.ns, p.name>> = key}
PodExistsAt(key) == PodsAt(key) # {}

---------------------------------------------------------------------------
(* SetupWithManager: what the controller watches *)

\* SetupWithManager without Owns(&corev1.Pod{}).
SetupWithoutOwns == [for |-> "Book", owns |-> {}]

\* For(&Book{}).Owns(&corev1.Pod{})
SetupWithManager == [for |-> "Book", owns |-> {"Pod"}]

\* The requests a Book event maps to (For).
BookRequests(b) == IF SetupWithManager.for = "Book" THEN {b} ELSE {}

\* The requests a Pod event maps to (Owns): the Pod's controller owner, when it
\* is a Book.  The handler matches the owner's kind and name, not its UID.
PodRequests(p) ==
    IF /\ "Pod" \in SetupWithManager.owns
       /\ p.owner.controller
       /\ p.owner.kind = SetupWithManager.for
    THEN {<<p.ns, p.owner.name>>}
    ELSE {}

\* Every replica's informer sees the event and adds the requests to its queue.
Enqueued(keys) ==
    [r \in Replicas |->
        IF r \in scenario.replicas THEN queue[r] \cup keys ELSE queue[r]]

---------------------------------------------------------------------------
(* Reconcile, one API call per step *)

Call(op, err) == [op |-> op, err |-> err]
Last(s) == s[Len(s)]

\* The failure of its own the API server may answer any call with.
Unlimited == 0 - 1
ServerErrors == IF faults = 0 THEN {} ELSE {InternalError}
Answer(err) ==
    faults' = IF err = InternalError /\ faults > 0 THEN faults - 1 ELSE faults

\* What the API server answers to a Get: the truth, or a failure of its own.
GetErrors(exists) == (IF exists THEN {Nil} ELSE {NotFound}) \cup ServerErrors
\* ... and to a Create of an object under `key`.
CreateErrors(key) ==
    (IF PodExistsAt(key) THEN {AlreadyExists} ELSE {Nil}) \cup ServerErrors

\* return <result>, <err>
Return(r, result, err) ==
    /\ pc' = [pc EXCEPT ![r] = "done"]
    /\ ret' = [ret EXCEPT ![r] = [result |-> result, err |-> err]]

\* BookGetFailed without IgnoreNotFound: return ctrl.Result{}, err.
BookGetFailedVerbatim(r, err) ==
    /\ Return(r, EmptyResult, err)
    /\ UNCHANGED book

\* if err != nil { return ctrl.Result{}, client.IgnoreNotFound(err) }
BookGetFailed(r, err) ==
    /\ Return(r, EmptyResult, IgnoreNotFound(err))
    /\ UNCHANGED book

\* The worker takes a request off the queue and calls Reconcile with it.
Start(r) ==
    /\ pc[r] = "idle"
    /\ \E b \in queue[r] :
        /\ queue' = [queue EXCEPT ![r] = @ \ {b}]
        /\ req' = [req EXCEPT ![r] = b]
    /\ pc' = [pc EXCEPT ![r] = "GetBook"]
    /\ calls' = [calls EXCEPT ![r] = <<>>]
    /\ UNCHANGED <<scenario, books, pods, nextUid, faults, book, ret>>

\* err := r.Get(ctx, req.NamespacedName, book)
ReconcileGetBook(r) ==
    /\ pc[r] = "GetBook"
    /\ \E err \in GetErrors(BookExists(req[r])) :
        /\ calls' = [calls EXCEPT ![r] = Append(@, Call("GetBook", err))]
        /\ Answer(err)
        /\ IF err # Nil
           THEN BookGetFailed(r, err)
           ELSE /\ book' = [book EXCEPT ![r] = Fetched(req[r])]
                /\ pc' = [pc EXCEPT ![r] = "GetPod"]
                /\ UNCHANGED ret
    /\ UNCHANGED <<scenario, books, pods, nextUid, queue, req>>

\* PodGetBranch without the return for a Pod that was found: the call goes
\* on to Create whether or not the Pod exists.
PodGetBranchFallthrough(r, err) ==
    IF err # Nil /\ IgnoreNotFound(err) # Nil
    THEN Return(r, EmptyResult, err)
    ELSE /\ pc' = [pc EXCEPT ![r] = "Create"]
         /\ UNCHANGED ret

\* PodGetBranch without the check for errors other than NotFound: whatever
\* the Get failed with, Create is tried.
PodGetBranchUnchecked(r, err) ==
    IF err = Nil
    THEN Return(r, EmptyResult, Nil)
    ELSE /\ pc' = [pc EXCEPT ![r] = "Create"]
         /\ UNCHANGED ret

\* PodGetBranch with the Book Get's error handling copied to the Pod Get:
\* return ctrl.Result{}, client.IgnoreNotFound(err) on any error.
PodGetBranchIgnoring(r, err) ==
    IF err # Nil
    THEN Return(r, EmptyResult, IgnoreNotFound(err))
    ELSE Return(r, EmptyResult, Nil)

\* The branches after err = r.Get(ctx, ObjectKey{...}, found): an error
\* other than NotFound is returned, a found Pod ends the call, NotFound goes
\* on to Create.
PodGetBranch(r, err) ==
    IF err # Nil /\ IgnoreNotFound(err) # Nil
    THEN Return(r, EmptyResult, err)
    ELSE IF err = Nil
         THEN Return(r, EmptyResult, Nil)
         ELSE /\ pc' = [pc EXCEPT ![r] = "Create"]
              /\ UNCHANGED ret

\* ReconcileGetPod with an update path: a Pod that is found is replaced by
\* the desired one.
ReconcileGetPodUpdating(r) ==
    /\ pc[r] = "GetPod"
    /\ LET pod == DesiredPod(book[r]) IN
       \E err \in GetErrors(PodExistsAt(ObjectKey(pod))) :
        /\ calls' = [calls EXCEPT ![r] = Append(@, Call("GetPod", err))]
        /\ Answer(err)
        /\ pods' = IF err = Nil
                   THEN (pods \ PodsAt(ObjectKey(pod))) \cup {pod}
                   ELSE pods
        /\ IF err # Nil /\ IgnoreNotFound(err) # Nil
           THEN Return(r, EmptyResult, err)
           ELSE IF err = Nil
                THEN Return(r, EmptyResult, Nil)
                ELSE /\ pc' = [pc EXCEPT ![r] = "Create"]
                     /\ UNCHANGED ret
    /\ UNCHANGED <<scenario, books, nextUid, queue, req, book>>

\* err = r.Get(ctx, client.ObjectKey{Name: pod.Name, Namespace: pod.Namespace}, found)
ReconcileGetPod(r) ==
    /\ pc[r] = "GetPod"
    /\ \E err \in GetErrors(PodExistsAt(ObjectKey(DesiredPod(book[r])))) :
        /\ calls' = [calls EXCEPT ![r] = Append(@, Call("GetPod", err))]
        /\ Answer(err)
        /\ PodGetBranch(r, err)
    /\ UNCHANGED <<scenario, books, pods, nextUid, queue, req, book>>

\* CreateBranch that takes AlreadyExists for success.
CreateBranchIgnoringExists(r, err) ==
    IF err # Nil /\ err # AlreadyExists
    THEN Return(r, EmptyResult, err)
    ELSE Return(r, EmptyResult, Nil)

\* CreateBranch that asks for a requeue after creating the Pod.
CreateBranchRequeueing(r, err) ==
    IF err # Nil
    THEN Return(r, EmptyResult, err)
    ELSE Return(r, [Requeue |-> TRUE, RequeueAfter |-> 0], Nil)

\* CreateBranch that logs the error of Create and returns nil.
CreateBranchSwallowing(r, err) == Return(r, EmptyResult, Nil)

\* if err != nil { return ctrl.Result{}, err }; return ctrl.Result{}, nil
CreateBranch(r, err) ==
    IF err # Nil
    THEN Return(r, EmptyResult, err)
    ELSE Return(r, EmptyResult, Nil)

\* ReconcileCreate with status reporting: after a successful Create the
\* Pod's name is written to the Book's status.
ReconcileCreateReporting(r) ==
    /\ pc[r] = "Create"
    /\ LET pod == DesiredPod(book[r]) IN
       \E err \in CreateErrors(ObjectKey(pod)) :
        /\ calls' = [calls EXCEPT ![r] = Append(@, Call("Create", err))]
        /\ Answer(err)
        /\ IF err = Nil
           THEN /\ pods' = pods \cup {pod}
                /\ queue' = Enqueued(PodRequests(pod))
                /\ books' = IF BookExists(req[r])
                            THEN [books EXCEPT ![req[r]].status =
                                    [observed |-> {pod.name}]]
                            ELSE books
           ELSE UNCHANGED <<pods, queue, books>>
        /\ CreateBranch(r, err)
    /\ UNCHANGED <<scenario, nextUid, req, book>>

\* err = r.Create(ctx, pod)
ReconcileCreate(r) ==
    /\ pc[r] = "Create"
    /\ LET pod == DesiredPod(book[r]) IN
       \E err \in CreateErrors(ObjectKey(pod)) :
        /\ calls' = [calls EXCEPT ![r] = Append(@, Call("Create", err))]
        /\ Answer(err)
        /\ IF err = Nil
           THEN /\ pods' = pods \cup {pod}
                /\ queue' = Enqueued(PodRequests(pod))
           ELSE UNCHANGED <<pods, queue>>
        /\ CreateBranch(r, err)
    /\ UNCHANGED <<scenario, books, nextUid, req, book>>

\* The framework's worker after Reconcile returned: a returned error, or a
\* Result asking for it, puts the request back on the queue.
Requeues(rt) ==
    rt.err # Nil \/ rt.result.Requeue \/ rt.result.RequeueAfter > 0

Finish(r) ==
    /\ pc[r] = "done"
    /\ queue' = [queue EXCEPT ![r] =
                    IF Requeues(ret[r]) THEN @ \cup {req[r]} ELSE @]
    /\ pc' = [pc EXCEPT ![r] = "idle"]
    /\ req' = [req EXCEPT ![r] = NoKey]
    /\ book' = [book EXCEPT ![r] = NoFetched]
    /\ calls' = [calls EXCEPT ![r] = <<>>]
    /\ ret' = [ret EXCEPT ![r] = NoRet]
    /\ UNCHANGED <<scenario, books, pods, nextUid, faults>>

---------------------------------------------------------------------------
(* The other actors on the cluster *)

UNCHANGED_Reconcilers ==
    UNCHANGED <<scenario, faults, pc, req, book, calls, ret>>

\* kubectl apply of a new Book: admitted only when its spec is valid.
BookCreate(b, s) ==
    /\ ~BookExists(b)
    /\ BookSpec(s)
    /\ nextUid <= MaxUid
    /\ books' = [books EXCEPT ![b] = Book(nextUid, s)]
    /\ nextUid' = nextUid + 1
    /\ queue' = Enqueued(BookRequests(b))
    /\ UNCHANGED pods
    /\ UNCHANGED_Reconcilers

\* kubectl apply of a changed spec.
BookUpdate(b, s) ==
    /\ BookExists(b)
    /\ BookSpec(s)
    /\ s # books[b].spec
    /\ books' = [books EXCEPT ![b].spec = s]
    /\ queue' = Enqueued(BookRequests(b))
    /\ UNCHANGED <<pods, nextUid>>
    /\ UNCHANGED_Reconcilers

\* kubectl delete of a Book (it carries no finalizer).
BookDelete(b) ==
    /\ BookExists(b)
    /\ books' = [books EXCEPT ![b] = NoBook]
    /\ queue' = Enqueued(BookRequests(b))
    /\ UNCHANGED <<pods, nextUid>>
    /\ UNCHANGED_Reconcilers

\* A Pod somebody else creates under a companion pod's name.
ForeignPod(key) ==
    [ns |-> key[1], name |-> key[2], owner |-> NoOwner,
     image |-> "busybox:1.36", command |-> <<"sleep", "3600">>]

PodCreate(key) ==
    /\ ~PodExistsAt(key)
    /\ pods' = pods \cup {ForeignPod(key)}
    /\ queue' = Enqueued(PodRequests(ForeignPod(key)))
    /\ UNCHANGED <<books, nextUid>>
    /\ UNCHANGED_Reconcilers

\* kubectl delete of a Pod, or its node going away.
PodDelete(p) ==
    /\ p \in pods
    /\ pods' = pods \ {p}
    /\ queue' = Enqueued(PodRequests(p))
    /\ UNCHANGED <<books, nextUid>>
    /\ UNCHANGED_Reconcilers

\* The garbage collector removes a Pod whose owner (by UID) is gone.
GarbageCollect(p) ==
    /\ p \in pods
    /\ p.owner # NoOwner
    /\ \A b \in BookKeys : books[b].uid # p.owner.uid
    /\ pods' = pods \ {p}
    /\ queue' = Enqueued(PodRequests(p))
    /\ UNCHANGED <<books, nextUid>>
    /\ UNCHANGED_Reconcilers

---------------------------------------------------------------------------

\* The Books users work with in this run, and the Pod names they may take.
ActiveBookKeys == scenario.namespaces \X scenario.names
ActivePodKeys ==
    {<<ns, n \o "-pod">> : ns \in scenario.namespaces, n \in scenario.names}

\* An empty cluster of one of the scenarios scs, the operator just started,
\* and an API server that may fail f calls.
Boot(scs, f) ==
    /\ scenario \in scs
    /\ books = [b \in BookKeys |-> NoBook]
    /\ pods = {}
    /\ nextUid = 1
    /\ faults = f
    /\ queue = [r \in Replicas |-> {}]
    /\ pc = [r \in Replicas |-> "idle"]
    /\ req = [r \in Replicas |-> NoKey]
    /\ book = [r \in Replicas |-> NoFetched]
    /\ calls = [r \in Replicas |-> <<>>]
    /\ ret = [r \in Replicas |-> NoRet]

Init == Boot(Scenarios, Unlimited)

Next ==
    \/ \E r \in scenario.replicas : Start(r)
    \/ \E r \in scenario.replicas : ReconcileGetBook(r)
    \/ \E r \in scenario.replicas : ReconcileGetPod(r)
    \/ \E r \in scenario.replicas : ReconcileCreate(r)
    \/ \E r \in scenario.replicas : Finish(r)
    \/ \E b \in ActiveBookKeys, s \in InputSpecs : BookCreate(b, s)
    \/ \E b \in ActiveBookKeys, s \in InputSpecs : BookUpdate(b, s)
    \/ \E b \in ActiveBookKeys : BookDelete(b)
    \/ \E key \in ActivePodKeys : PodCreate(key)
    \/ \E p \in pods : PodDelete(p)
    \/ \E p \in pods : GarbageCollect(p)

Spec == Init /\ [][Next]_vars

\* All that replica r does.
Replica(r) ==
    \/ Start(r)
    \/ ReconcileGetBook(r)
    \/ ReconcileGetPod(r)
    \/ ReconcileCreate(r)
    \/ Finish(r)

\* What the framework gives a controller: the worker of every replica keeps
\* running, so a request on its queue is handed to Reconcile, each API call
\* of Reconcile is answered, and a call that returned is taken off the worker.
Fairness == \A r \in Replicas : WF_vars(Replica(r))

\* The runs the progress claims are checked on: the replicated operator,
\* against an API server that fails no more than MaxFaults calls.
FairInit ==
    Boot({sc \in Scenarios : Cardinality(sc.replicas) = 2}, MaxFaults)

FairSpec == FairInit /\ [][Next]_vars /\ Fairness

\* The Books of those runs.
FairBookKeys ==
    UNION {sc.namespaces \X sc.names :
            sc \in {sc \in Scenarios : Cardinality(sc.replicas) = 2}}

\* The garbage collector keeps running too: a Pod whose owner is gone does not
\* stay for ever.
GcFairness == WF_vars(\E p \in pods : GarbageCollect(p))

GcFairSpec == FairInit /\ [][Next]_vars /\ Fairness /\ GcFairness

---------------------------------------------------------------------------
(* Reconcile called twice in a row on a cluster nobody else touches *)

\* The cluster states the two calls start from: in a namespace, the Book a
\* absent or present with either spec, and under its pod's name no pod, a
\* foreign pod, or a pod made for this Book (UID 1) or for another of its
\* name (a later UID) with either spec.
AdmittedSpecs == {s \in InputSpecs : BookSpec(s)}
TwiceBooks(b) ==
    {[k \in BookKeys |-> NoBook]}
        \cup {[k \in BookKeys |-> IF k = b THEN Book(1, s) ELSE NoBook] :
                s \in AdmittedSpecs}
TwicePods(b) ==
    {{}, {ForeignPod(<<b[1], b[2] \o "-pod">>)}}
        \cup {{DesiredPod([namespace |-> b[1], name |-> b[2], uid |-> u,
                           spec |-> s])} : u \in 1..MaxUid, s \in AdmittedSpecs}

\* Replica r1 is handed the request; what r2 records is the second call.
TwiceInit ==
    /\ scenario \in {sc \in Scenarios : Cardinality(sc.replicas) = 2}
    /\ \E b \in ActiveBookKeys :
        /\ books \in TwiceBooks(b)
        /\ pods \in TwicePods(b)
        /\ queue = [r \in Replicas |-> IF r = "r1" THEN {b} ELSE {}]
    /\ nextUid = MaxUid + 1
    /\ faults = MaxFaults
    /\ pc = [r \in Replicas |-> "idle"]
    /\ req = [r \in Replicas |-> NoKey]
    /\ book = [r \in Replicas |-> NoFetched]
    /\ calls = [r \in Replicas |-> <<>>]
    /\ ret = [r \in Replicas |-> NoRet]

\* Reconcile is called again with the request of the call that has returned.
Again ==
    /\ pc["r1"] = "done"
    /\ pc["r2"] = "idle"
    /\ pc' = [pc EXCEPT !["r2"] = "GetBook"]
    /\ req' = [req EXCEPT !["r2"] = req["r1"]]
    /\ calls' = [calls EXCEPT !["r2"] = <<>>]
    /\ UNCHANGED <<scenario, books, pods, nextUid, faults, queue, book, ret>>

TwiceNext ==
    \/ Start("r1")
    \/ Again
    \/ \E r \in Replicas : ReconcileGetBook(r)
    \/ \E r \in Replicas : ReconcileGetPod(r)
    \/ \E r \in Replicas : ReconcileCreate(r)

TwiceSpec == TwiceInit /\ [][TwiceNext]_vars

---------------------------------------------------------------------------
(* Two replicas reconciling the same Book on a cluster nobody else touches *)

\* Both replicas have the request queued; the cluster is as in TwiceInit.
RaceInit ==
    /\ scenario \in {sc \in Scenarios : Cardinality(sc.replicas) = 2}
    /\ \E b \in ActiveBookKeys :
        /\ books \in TwiceBooks(b)
        /\ pods \in TwicePods(b)
        /\ queue = [r \in Replicas |-> {b}]
    /\ nextUid = MaxUid + 1
    /\ faults = MaxFaults
    /\ pc = [r \in Replicas |-> "idle"]
    /\ req = [r \in Replicas |-> NoKey]
    /\ book = [r \in Replicas |-> NoFetched]
    /\ calls = [r \in Replicas |-> <<>>]
    /\ ret = [r \in Replicas |-> NoRet]

RaceNext == \E r \in Replicas : Replica(r)

RaceSpec == RaceInit /\ [][RaceNext]_vars

---------------------------------------------------------------------------
(* What the claims speak of *)

\* The key of the companion pod of Book b: <Book name>-pod in b's namespace.
CompanionKey(b) == <<b[1], b[2] \o "-pod">>

\* Reconcile of replica r returns in this step.
Returns(r) == pc[r] # "done" /\ pc'[r] = "done"

\* ... for a Book its Get found, and without error.
ReturnsSuccess(r) ==
    /\ Returns(r)
    /\ calls'[r][1] = Call("GetBook", Nil)
    /\ ret'[r].err = Nil

\* The running (or just returned) call of r made this API call.
Made(r, op, err) == \E i \in 1..Len(calls[r]) : calls[r][i] = Call(op, err)

\* sub occurs in the string s.
Contains(s, sub) ==
    \E i \in 1..(Len(s) - Len(sub) + 1) : SubSeq(s, i, i + Len(sub) - 1) = sub

\* The years of InputSpecs as a shell prints them.
YearText(y) == CASE y = 1900 -> "1900" [] y = 2100 -> "2100"
                 [] y = 2009 -> "2009" [] y = 1899 -> "1899" [] y = 2101 -> "2101"

\* The script echoes this title and this year.
Echoes(command, s) ==
    /\ Len(command) = 3
    /\ Contains(command[3], "echo Book: " \o s.book \o ", Year: "
                               \o YearText(s.year) \o ";")

---------------------------------------------------------------------------
\* C1: a Reconcile that found its Book and returns without error returns with
\* the pod <Book name>-pod present in the Book's namespace: it has just seen
\* it (pod Get succeeded) or just created it (Create succeeded).
C1_SuccessMeansPod ==
    [][\A r \in Replicas :
        ReturnsSuccess(r) =>
            /\ \E p \in pods' : <<p.ns, p.name>> = CompanionKey(req[r])
            /\ Last(calls'[r]) \in {Call("GetPod", Nil), Call("Create", Nil)}]_vars

\* A Reconcile has returned success after creating the pod, which is there.
C1_Witness ==
    \E r \in Replicas :
        /\ pc[r] = "done"
        /\ ret[r].err = Nil
        /\ Made(r, "GetBook", Nil)
        /\ Made(r, "Create", Nil)
        /\ PodExistsAt(CompanionKey(req[r]))

\* The pods that go with Book b: the one under its companion key and every
\* one whose controller reference names it.
Companions(b) ==
    {p \in pods :
        /\ p.ns = b[1]
        /\ \/ p.name = b[2] \o "-pod"
           \/ p.owner.kind = "Book" /\ p.owner.name = b[2]}

\* C2: in every reachable state every Book has at most one companion pod;
\* Reconciles, interleaved in any way with Book events, never add a second.
C2_AtMostOnePod ==
    \A b \in BookKeys : Cardinality(Companions(b)) <= 1

\* Two Reconciles of one Book raced, the loser's Create was refused, and the
\* Book, updated since, still has the one pod.
C2_Witness ==
    \E r \in Replicas :
        /\ pc[r] = "done"
        /\ Made(r, "Create", AlreadyExists)
        /\ BookExists(req[r])
        /\ book[r].spec # books[req[r]].spec
        /\ Cardinality(Companions(req[r])) = 1

\* C3 (as claimed): a Reconcile that found its Book and returns without error
\* leaves the pod <Book name>-pod carrying a controller reference to that
\* very Book (its kind, name and UID).
C3_SuccessMeansOwned ==
    [][\A r \in Replicas :
        ReturnsSuccess(r) =>
            \A p \in pods' :
                <<p.ns, p.name>> = CompanionKey(req[r]) =>
                    p.owner = [kind |-> "Book", name |-> req[r][2],
                               uid |-> book'[r].uid, controller |-> TRUE]]_vars

\* C4 (as claimed): whenever a Reconcile that fetched its Book as it now is
\* (no creation or update of it came after the fetch) returns without error,
\* the command of the pod <Book name>-pod (the one created for this Book)
\* echoes the Book's current title and year.
C4_SuccessMeansCurrentCommand ==
    [][\A r \in Replicas :
        /\ ReturnsSuccess(r)
        /\ books'[req[r]].uid = book'[r].uid
        /\ books'[req[r]].spec = book'[r].spec
        =>
            \A p \in pods' :
                /\ <<p.ns, p.name>> = CompanionKey(req[r])
                /\ p.owner.uid = books'[req[r]].uid
                => Echoes(p.command, books'[req[r]].spec)]_vars

\* C4 (amended): a Reconcile that creates the pod gives it a command that
\* echoes the title and year of the Book as that Reconcile fetched it; a
\* Reconcile that finds the pod already there leaves its command as it is.
C4_CreatedPodEchoesFetched ==
    [][\A r \in Replicas :
        /\ ReturnsSuccess(r) /\ Last(calls'[r]) = Call("Create", Nil) =>
            /\ Cardinality(pods' \ pods) = 1
            /\ \A p \in pods' \ pods :
                /\ <<p.ns, p.name>> = CompanionKey(req[r])
                /\ p.command[1] = "sh" /\ p.command[2] = "-c"
                /\ Echoes(p.command, book[r].spec)
        /\ ReturnsSuccess(r) /\ Last(calls'[r]) = Call("GetPod", Nil) =>
            pods' = pods]_vars

\* A Reconcile has created the pod of a Book "K8s" of 2100, and the pod's
\* script echoes that title and year.
C4_Witness ==
    \E r \in Replicas :
        /\ pc[r] = "done"
        /\ Made(r, "Create", Nil)
        /\ book[r].spec = [book |-> "K8s", year |-> 2100]
        /\ books[req[r]].uid = book[r].uid
        /\ \E p \in PodsAt(CompanionKey(req[r])) :
            p.command = <<"sh", "-c",
                "while true; do echo Book: K8s, Year: 2100; sleep 1; done">>

\* C6: a Create that fails, with AlreadyExists or anything else, makes
\* Reconcile return that very error with the empty Result and leaves the pods
\* as they were; a Create that succeeds makes it return a nil error.  After
\* either, the call makes no further API call.
C6_CreateErrorVerbatim ==
    [][\A r \in Replicas :
        /\ pc[r] = "Create" /\ pc'[r] # "Create" =>
            /\ pc'[r] = "done"
            /\ Len(calls'[r]) = Len(calls[r]) + 1
            /\ Last(calls'[r]).op = "Create"
            /\ ret'[r].err = Last(calls'[r]).err
            /\ ret'[r].result = EmptyResult
            /\ ret'[r].err # Nil => pods' = pods
        /\ pc[r] = "done" => calls'[r] \in {calls[r], <<>>}]_vars

\* A Reconcile has returned the AlreadyExists of its Create.
C6_Witness ==
    \E r \in Replicas :
        /\ pc[r] = "done"
        /\ Last(calls[r]) = Call("Create", AlreadyExists)
        /\ ret[r] = [result |-> EmptyResult, err |-> AlreadyExists]

\* The companion pod of the Book r reconciles is there, and its command is
\* not the one the Book's present spec asks for.
StalePod(r) ==
    /\ BookExists(req[r])
    /\ \E p \in PodsAt(CompanionKey(req[r])) :
        /\ p.owner.uid = books[req[r]].uid
        /\ ~Echoes(p.command, books[req[r]].spec)

\* C7: no step of Reconcile removes or changes a pod; a Reconcile whose pod Get
\* finds the pod returns success with the pods (and Books) exactly as they
\* were, also when the Book's title or year has changed since the pod was
\* created.
C7_NoUpdatePath ==
    [][\A r \in Replicas :
        /\ pc'[r] # pc[r] => pods \subseteq pods'
        /\ Returns(r) /\ Last(calls'[r]) = Call("GetPod", Nil) =>
            /\ pods' = pods
            /\ books' = books
            /\ ret'[r] = [result |-> EmptyResult, err |-> Nil]]_vars

\* A Reconcile has returned success on finding a pod that still echoes the
\* Book's former spec.
C7_Witness ==
    \E r \in Replicas :
        /\ pc[r] = "done"
        /\ Last(calls[r]) = Call("GetPod", Nil)
        /\ book[r].spec = books[req[r]].spec
        /\ StalePod(r)

\* The API calls of kind op in a call's record.
CallsOf(cs, op) == {i \in 1..Len(cs) : cs[i].op = op}

\* C9: a Reconcile call makes at most one pod Get and at most one Create, the
\* Get first; it issues Create only after its Book Get succeeded and its pod
\* Get answered NotFound.
C9_OneGetOneCreate ==
    \A r \in Replicas :
        /\ Cardinality(CallsOf(calls[r], "GetPod")) <= 1
        /\ Cardinality(CallsOf(calls[r], "Create")) <= 1
        /\ \A i \in CallsOf(calls[r], "GetPod") :
            i = 2 /\ calls[r][1] = Call("GetBook", Nil)
        /\ \A i \in CallsOf(calls[r], "Create") :
            /\ i = 3
            /\ calls[r][1] = Call("GetBook", Nil)
            /\ calls[r][2] = Call("GetPod", NotFound)
        /\ pc[r] = "Create" =>
            calls[r] = <<Call("GetBook", Nil), Call("GetPod", NotFound)>>

\* A Reconcile has made its three calls, and another has stopped at a pod Get
\* that failed.
C9_Witness ==
    /\ \E r \in Replicas : Len(calls[r]) = 3 /\ calls[r][3].op = "Create"
    /\ \E r \in Replicas :
        pc[r] = "done" /\ Last(calls[r]) = Call("GetPod", InternalError)

\* C10: on every return path Reconcile returns the empty Result; a call that
\* returned a nil error is not put back on the queue, so a re-run comes only
\* from a returned error or a watch event.
C10_NoRequeue ==
    /\ [](\A r \in Replicas : pc[r] = "done" => ret[r].result = EmptyResult)
    /\ [][\A r \in Replicas :
            pc[r] = "done" /\ pc'[r] = "idle" =>
                queue'[r] = IF ret[r].err = Nil THEN queue[r]
                            ELSE queue[r] \cup {req[r]}]_vars

\* A Reconcile has returned success after creating the pod, with the empty
\* Result, and its request is not on the queue.
C10_Witness ==
    \E r \in Replicas :
        /\ pc[r] = "done"
        /\ Last(calls[r]) = Call("Create", Nil)
        /\ ret[r] = [result |-> EmptyResult, err |-> Nil]

\* The request for Book b is on the queue of some replica.
Queued(b) == \E r \in scenario.replicas : b \in queue[r]

\* Book b has its pod, or is no more.
PodOrGone(b) == PodExistsAt(CompanionKey(b)) \/ ~BookExists(b)

\* C5: a Book that is created is put on the queue of every replica, and
\* from then on, as from any event or returned error that queues it, its
\* companion pod comes to exist unless the Book is deleted; this under the
\* framework's fair running of the workers and an API server that does not
\* fail for ever.
C5_BookGetsPod ==
    /\ [][\A b \in BookKeys :
            ~BookExists(b) /\ BookExists(b)' =>
                \A r \in scenario.replicas : b \in queue'[r]]_vars
    /\ \A b \in FairBookKeys : (BookExists(b) /\ Queued(b)) ~> PodOrGone(b)

\* The API server has failed all the calls it may, and yet a Book has the pod
\* a Reconcile created for it.
C5_Witness ==
    /\ faults = 0
    /\ \E b \in BookKeys :
        /\ BookExists(b)
        /\ \E p \in PodsAt(CompanionKey(b)) : p.owner.uid = books[b].uid

\* C8: when a pod whose controller is a Book goes away, the Book's request
\* is put on the queue of every replica, and a Book that is queued while its
\* pod is missing gets the pod <Book name>-pod again unless the Book is
\* deleted (same fairness as C5).
C8_DeletedPodComesBack ==
    /\ [][\A p \in pods :
            p \notin pods' /\ p.owner.controller /\ p.owner.kind = "Book" =>
                \A r \in scenario.replicas :
                    <<p.ns, p.owner.name>> \in queue'[r]]_vars
    /\ \A b \in FairBookKeys :
        (BookExists(b) /\ ~PodExistsAt(CompanionKey(b)) /\ Queued(b))
            ~> PodExistsAt(CompanionKey(b)) \/ ~BookExists(b)

\* A Reconcile created the pod of a Book that is still there; the pod has
\* been deleted since, and the Book's request is on every replica's queue.
C8_Witness ==
    \E r \in Replicas :
        /\ pc[r] = "done"
        /\ Made(r, "Create", Nil)
        /\ books[req[r]].uid = book[r].uid
        /\ ~PodExistsAt(CompanionKey(req[r]))
        /\ \A r2 \in scenario.replicas : req[r] \in queue[r2]

\* C11: no step of Reconcile, on any of its paths, writes a Book: spec,
\* status, finalizers and metadata of every Book are after the step what they
\* were before it, so a Book changes only by what other actors do.
C11_BooksUntouched ==
    [][(\E r \in Replicas : pc'[r] # pc[r]) => books' = books]_vars

\* A Reconcile has gone all the way to creating the pod, and its Book is as
\* the user wrote it: the fetched spec, an empty status, no finalizers.
C11_Witness ==
    \E r \in Replicas :
        /\ pc[r] = "done"
        /\ Made(r, "Create", Nil)
        /\ books[req[r]] = [uid |-> book[r].uid, spec |-> book[r].spec,
                            status |-> [observed |-> {}], finalizers |-> {}]

\* C12: a pod that a step of Reconcile adds lies in the namespace of the Book
\* it reconciles (never a fixed one) and is named <Book name>-pod; so the pod
\* controlled by a living Book is always in the Book's own namespace, and
\* Books of one name in two namespaces have a pod each.
C12_PodInBookNamespace ==
    /\ [][\A r \in Replicas :
            pc'[r] # pc[r] =>
                \A p \in pods' \ pods :
                    /\ p.ns = req[r][1]
                    /\ p.name = req[r][2] \o "-pod"
                    /\ p.owner.name = req[r][2]]_vars
    /\ [](\A b \in BookKeys : \A p \in pods :
            BookExists(b) /\ p.owner.controller /\ p.owner.uid = books[b].uid
                => <<p.ns, p.name>> = CompanionKey(b))

\* Books default/a and lib/a both exist, and each has its own pod a-pod in
\* its own namespace.
C12_Witness ==
    /\ BookExists(<<"default", "a">>) /\ BookExists(<<"lib", "a">>)
    /\ \E p \in pods :
        /\ <<p.ns, p.name>> = <<"default", "a-pod">>
        /\ p.owner.uid = books[<<"default", "a">>].uid
    /\ \E p \in pods :
        /\ <<p.ns, p.name>> = <<"lib", "a-pod">>
        /\ p.owner.uid = books[<<"lib", "a">>].uid

\* The Book of UID u is gone and a pod that names it as owner is still there.
Orphaned(u) ==
    /\ \E p \in pods : p.owner.uid = u
    /\ \A b \in BookKeys : books[b].uid # u

\* No pod names as owner a Book that is gone. A deleted Book's UID is never
\* given again, so a pod that names it stays so until it is removed: that
\* NoOrphans holds again and again says every such pod is removed in the end.
NoOrphans == \A u \in 1..MaxUid : ~Orphaned(u)

\* No step of Reconcile removes a pod, and the pods it adds carry a controller
\* reference to the Book that call fetched.
CreatesOwnedOnly ==
    \A r \in Replicas :
        pc'[r] # pc[r] =>
            /\ pods \subseteq pods'
            /\ \A p \in pods' \ pods :
                /\ calls'[r][1] = Call("GetBook", Nil)
                /\ p.owner = [kind |-> "Book", name |-> req[r][2],
                              uid |-> book[r].uid, controller |-> TRUE]
                /\ book[r].uid > 0

\* C13 (as claimed): after a Book is deleted the pod created for it is
\* eventually removed by the garbage collector, and Reconcile neither deletes
\* a pod nor creates one for a Book that is deleted.
C13_GcAndNeverRecreated ==
    /\ []<>NoOrphans
    /\ [][\A r \in Replicas :
            pc'[r] # pc[r] =>
                /\ pods \subseteq pods'
                /\ \A p \in pods' \ pods :
                    \E b \in BookKeys : books'[b].uid = p.owner.uid]_vars

\* C13 (amended): after a Book is deleted every pod that names it as owner is
\* eventually removed (the garbage collector running); no step of Reconcile
\* removes a pod, and a pod Reconcile adds names as controller the Book that
\* call fetched, which may by then be deleted.
C13_GcRemovesOrphans ==
    /\ []<>NoOrphans
    /\ [][CreatesOwnedOnly]_vars

\* A Reconcile that had fetched a Book before it was deleted has created the
\* pod after the deletion (another Reconcile already found the Book gone):
\* the pod is an orphan, left to the garbage collector.
C13_Witness ==
    \E r \in Replicas :
        /\ pc[r] = "done"
        /\ Made(r, "Create", Nil)
        /\ Orphaned(book[r].uid)
        /\ \E r2 \in Replicas :
            r2 # r /\ pc[r2] = "done" /\ Made(r2, "GetBook", NotFound)

\* A title of 1 to 200 characters and a year from 1900 to 2100.
InRange(s) ==
    /\ Len(s.book) >= 1 /\ Len(s.book) <= 200
    /\ s.year >= 1900 /\ s.year <= 2100

C15_BookGetFailure ==
    [][\A r \in Replicas :
        /\ pc[r] = "GetBook" /\ pc'[r] # "GetBook"
           /\ Last(calls'[r]).err # Nil =>
            /\ pc'[r] = "done"
            /\ calls'[r] = <<Call("GetBook", Last(calls'[r]).err)>>
            /\ books' = books /\ pods' = pods
            /\ ret'[r].result = EmptyResult
            /\ Last(calls'[r]).err = "NotFound" =>
                ~BookExists(req[r]) /\ ret'[r].err = "nil"
            /\ Last(calls'[r]).err # "NotFound" =>
                ret'[r].err = Last(calls'[r]).err
        /\ pc[r] = "done" /\ Len(calls[r]) = 1 =>
            /\ calls'[r] \in {calls[r], <<>>}
            /\ pc'[r] # pc[r] => pods' = pods]_vars

\* A Reconcile for a deleted Book has returned nil on NotFound; the pod the
\* Book left behind is still there.
C15_Witness ==
    \E r \in Replicas :
        /\ pc[r] = "done"
        /\ calls[r] = <<Call("GetBook", NotFound)>>
        /\ ret[r] = [result |-> EmptyResult, err |-> "nil"]
        /\ PodExistsAt(CompanionKey(req[r]))

\* C16: a pod Get that fails with anything but NotFound makes Reconcile
\* return that error, without a Create and with the pods as they were;
\* Create is reached from a pod Get that answered NotFound and from nowhere
\* else.
C16_PodGetFailure ==
    [][\A r \in Replicas :
        /\ pc[r] = "GetPod" /\ pc'[r] # "GetPod"
           /\ Last(calls'[r]).err \notin {"nil", "NotFound"} =>
            /\ pc'[r] = "done"
            /\ ret'[r] = [result |-> EmptyResult, err |-> Last(calls'[r]).err]
            /\ pods' = pods
        /\ pc[r] # "Create" /\ pc'[r] = "Create" =>
            /\ pc[r] = "GetPod"
            /\ Last(calls'[r]) = Call("GetPod", "NotFound")
        /\ calls'[r] # calls[r] /\ calls'[r] # <<>>
           /\ Last(calls'[r]).op = "Create" =>
            pc[r] = "Create"]_vars

\* A pod Get has failed while the pod was missing: Reconcile has returned the
\* error and no pod was created.
C16_Witness ==
    \E r \in Replicas :
        /\ pc[r] = "done"
        /\ Last(calls[r]) = Call("GetPod", "InternalError")
        /\ ret[r].err = "InternalError"
        /\ BookExists(req[r])
        /\ ~PodExistsAt(CompanionKey(req[r]))

\* The call of replica r has returned a nil error.
ReturnedSuccess(r) == pc[r] = "done" /\ ret[r].err = Nil

\* The second of two calls in a row acts.
SecondActs == pc'["r2"] # pc["r2"] /\ pc["r2"] # "idle"

\* C17 as stated: whatever the first of two calls in a row returned, the
\* second leaves Books and pods as the first left them; and after a first call
\* that returned success the second makes no Create and returns success.
C17_TwiceIsOnce ==
    /\ [][SecondActs => books' = books /\ pods' = pods]_vars
    /\ [](pc["r2"] = "done" /\ ReturnedSuccess("r1") =>
            /\ CallsOf(calls["r2"], "Create") = {}
            /\ ReturnedSuccess("r2"))

\* C17, amended: after a first call that returned success, the second of two
\* calls in a row leaves Books and pods as the first left them and makes no
\* Create; it returns success unless a Get of its own fails, and then it
\* returns that Get's error.
C17_TwiceIsOnceAfterSuccess ==
    /\ [][SecondActs /\ ReturnedSuccess("r1") =>
            books' = books /\ pods' = pods]_vars
    /\ [](pc["r2"] = "done" /\ ReturnedSuccess("r1") =>
            /\ CallsOf(calls["r2"], "Create") = {}
            /\ ret["r2"].result = EmptyResult
            /\ ret["r2"].err = IgnoreNotFound(Last(calls["r2"]).err))

\* The first call created the pod and returned success; the second found it
\* and returned success.
C17_Witness ==
    /\ pc["r1"] = "done" /\ pc["r2"] = "done"
    /\ Made("r1", "Create", Nil) /\ ReturnedSuccess("r1")
    /\ Last(calls["r2"]) = Call("GetPod", Nil) /\ ReturnedSuccess("r2")
    /\ PodExistsAt(CompanionKey(req["r2"]))

\* Replica r has returned from a call whose last API call was op, answered err.
Ended(r, op, err) == pc[r] = "done" /\ Last(calls[r]) = Call(op, err)

\* Replica r has returned from a call that made no Create and that returned
\* success unless a Get of its own failed.
QuietRun(r) ==
    /\ pc[r] = "done"
    /\ CallsOf(calls[r], "Create") = {}
    /\ Last(calls[r]).err # InternalError => ReturnedSuccess(r)

FetchedAt(b) ==
    {[namespace |-> b[1], name |-> b[2], uid |-> u, spec |-> s] :
        u \in 1..MaxUid, s \in AdmittedSpecs}

\* The pods Reconcile wants for Books of distinct keys have distinct keys,
\* each its Book's namespace and its Book's name followed by "-pod".
PodKeysInjective ==
    \A b1 \in BookKeys : \A bk1 \in FetchedAt(b1) :
        /\ ObjectKey(DesiredPod(bk1)) = CompanionKey(b1)
        /\ \A b2 \in BookKeys \ {b1} : \A bk2 \in FetchedAt(b2) :
            ObjectKey(DesiredPod(bk1)) # ObjectKey(DesiredPod(bk2))

\* C19: distinct Books have distinct pod keys, each Book's pod key being its
\* namespace and its name followed by "-pod"; a Reconcile step for one Book
\* leaves the pods under every other Book's pod key as they are, and what it
\* creates lies under its own Book's pod key; a call that returns success for
\* a Book it found has a pod under that Book's pod key, which is no other
\* Book's.
C19_DistinctBooksDistinctPods ==
    /\ []PodKeysInjective
    /\ [][\A r \in Replicas :
            pc'[r] # pc[r] /\ pc[r] # "idle" =>
                /\ \A b \in BookKeys \ {req[r]} :
                    PodsAt(CompanionKey(b))' = PodsAt(CompanionKey(b))
                /\ \A p \in pods' \ pods :
                    <<p.ns, p.name>> = CompanionKey(req[r])
                /\ ReturnsSuccess(r) =>
                    /\ PodExistsAt(CompanionKey(req[r]))'
                    /\ \A b \in BookKeys \ {req[r]} :
                        CompanionKey(b) # CompanionKey(req[r])]_vars

\* Two Books exist, each with the pod Reconcile created for it, and the call
\* for one of them has just created its pod while the other's was there.
C19_Witness ==
    \E r \in Replicas : \E b \in BookKeys \ {req[r]} :
        /\ Ended(r, "Create", Nil)
        /\ BookExists(req[r]) /\ BookExists(b)
        /\ \E p \in PodsAt(CompanionKey(req[r])) :
            p.owner.uid = books[req[r]].uid
        /\ \E p \in PodsAt(CompanionKey(b)) : p.owner.uid = books[b].uid

=============================================================================
